---------------------------- MODULE Spec2Model ----------------------------
(***************************************************************************)
(* A model of pytools: the structural map/zip engine (the vectorize*      *)
(* family of src/pytools/vectorizations.py, specification Spec), the       *)
(* concurrency helpers of src/build/lib/pytools/concurrecy.py              *)
(* (specifications SpecManager and SpecDecorator) and the metaclass         *)
(* CallBlockerMetaclass of src/build/lib/pytools/metaclass.py (SpecMeta).   *)
(*                                                                         *)
(* Python values are tagged records [k |-> kind, v |-> payload]:           *)
(*   "leaf"    an int (stands for every type of TYPES), v the number        *)
(*   "str"     a str (also a member of TYPES), v the text; used as keys     *)
(*   "none"    None                                                        *)
(*   "object"  an instance of a class in neither TYPES nor CONTAINER_TYPES *)
(*   "list" / "tuple"   v a sequence of values                             *)
(*   "set"     v a set of values                                           *)
(*   "dict"    v a sequence of [key, val] in insertion order, keys distinct*)
(*   "ndarray" v a sequence of numbers (a one-dimensional array)           *)
(*   "frame"   pd.DataFrame, v a sequence of [key = column, val = list]    *)
(*   "series"  pd.Series, v a sequence of [key = index label, val]         *)
(* A call of a Python function yields an outcome [st, val, log]: st is     *)
(* "ok" (val returned) or "exc" (val raised), log the calls of the         *)
(* user-supplied leaf function made so far, in order.                      *)
(***************************************************************************)
EXTENDS Integers, Sequences, FiniteSets, TLC

\* One call of a vectorize* function (src/pytools/vectorizations.py).
VARIABLES op, fun, objects, params, pc, result, calls, hashOrder

\* One call of ConcurrencyManager.concurrency_manager or of a function decorated
\* with concurrency_manager (src/build/lib/pytools/concurrecy.py):
\*   unit          which of the two is called ("" while neither is)
\*   engine, lock, own_lock   the options (locker and own_locker of the class)
\*   call_args     the dict args: its keys in order, and whether its values are
\*                 tuples or dicts
\*   call_kwargs   the dict kwargs: whether it is given (not None), and its keys
\*   cpu_count     what multiprocessing.cpu_count() returns
\*   raises        the keys on whose arguments the user function raises
\*   mpc, batch, mi   where the calling thread is: its position, the batch of
\*                 processes it handles and its loop index
\*   wpc           where the worker (thread, process or pool task) of each key is
\*   tlock         the locks that exist and the key of the worker holding each
\*   shared_data   self.shared_data; results: what each pool future holds
\*   invocations   the calls of the user function so far, in order
\*   returned      what the call returned or raised
VARIABLES unit, engine, lock, own_lock, call_args, call_kwargs, cpu_count, raises,
          mpc, batch, mi, wpc, tlock, shared_data, results, invocations, returned

\* Instantiation calls on classes whose metaclass is CallBlockerMetaclass
\* (src/build/lib/pytools/metaclass.py): the metaclass attribute counter, the
\* number of instances created of each class, and the calls made so far.
VARIABLES counter, instances, history

vecVars == <<op, fun, objects, params, pc, result, calls, hashOrder>>
cmVars == <<unit, engine, lock, own_lock, call_args, call_kwargs, cpu_count, raises,
            mpc, batch, mi, wpc, tlock, shared_data, results, invocations, returned>>
metaVars == <<counter, instances, history>>
vars == <<vecVars, cmVars, metaVars>>

\* The parts of the state a specification does not exercise stay as they start.
NoDict == [key \in {} |-> ""]
vecIdle ==
    /\ op = "" /\ fun = "" /\ objects = <<>> /\ params = <<>> /\ pc = ""
    /\ result = [st |-> "none", val |-> [k |-> "none", v |-> 0]]
    /\ calls = <<>> /\ hashOrder = <<>>
cmIdle ==
    /\ unit = "" /\ engine = "" /\ lock = FALSE /\ own_lock = FALSE
    /\ call_args = [keys |-> <<>>, kind |-> "tuple"]
    /\ call_kwargs = [given |-> FALSE, keys |-> {}]
    /\ cpu_count = 1 /\ raises = {}
    /\ mpc = "" /\ batch = 0 /\ mi = 0 /\ wpc = NoDict /\ tlock = NoDict
    /\ shared_data = NoDict /\ results = NoDict /\ invocations = <<>>
    /\ returned = [st |-> "none", val |-> NoDict, exc |-> ""]
metaIdle == counter = 0 /\ instances = NoDict /\ history = <<>>

(***************************************************************************)
(* Bounds of the checked inputs.                                           *)
(***************************************************************************)
MaxLeaf == 1
MaxLen == 2

(***************************************************************************)
(* Values.                                                                 *)
(***************************************************************************)
Leaf(n) == [k |-> "leaf", v |-> n]
Str(s) == [k |-> "str", v |-> s]
NoneVal == [k |-> "none", v |-> 0]
Obj == [k |-> "object", v |-> 0]
PyList(s) == [k |-> "list", v |-> s]
PyTuple(s) == [k |-> "tuple", v |-> s]
PySet(S) == [k |-> "set", v |-> S]
PyDict(s) == [k |-> "dict", v |-> s]
NdArray(s) == [k |-> "ndarray", v |-> s]
DataFrame(s) == [k |-> "frame", v |-> s]
Series(s) == [k |-> "series", v |-> s]
Item(key, val) == [key |-> key, val |-> val]
Exc(name) == [k |-> "exc", v |-> name]

Ret(val, log) == [st |-> "ok", val |-> val, log |-> log]
Raise(name, log) == [st |-> "exc", val |-> Exc(name), log |-> log]

TYPES == {"leaf", "str"}
CONTAINER_TYPES == {"list", "set", "tuple", "dict", "ndarray", "frame", "series"}

isinstance(obj, types) == obj.k \in types

Range(s) == {s[i] : i \in DOMAIN s}

all_types_same(obj, types) == \A i \in DOMAIN obj : isinstance(obj[i], types)

argument_consistency(objs, cont_types) ==
    \E typ \in cont_types : \A i \in DOMAIN objs : isinstance(objs[i], {typ})

dtype_consistency_in_container(container, base_dtypes) ==
    \A i \in DOMAIN container : isinstance(container[i], base_dtypes)


(***************************************************************************)
(* Built-ins of Python, numpy and pandas the traversals use.               *)
(***************************************************************************)
RECURSIVE SeqSum(_)
SeqSum(s) == IF s = <<>> THEN 0 ELSE Head(s) + SeqSum(Tail(s))

\* Whether hash(x) is defined: lists, sets, dicts, arrays and frames are unhashable.
RECURSIVE hashable(_)
hashable(x) ==
    CASE x.k \in {"leaf", "str", "none", "object"} -> TRUE
      [] x.k = "tuple" -> \A i \in DOMAIN x.v : hashable(x.v[i])
      [] OTHER -> FALSE

\* The elements of a set in ascending order of value (objects after numbers).
SortKey(x) == IF x.k = "leaf" THEN x.v ELSE 1000000
RECURSIVE Ascending(_)
Ascending(S) ==
    IF S = {} THEN <<>>
    ELSE LET m == CHOOSE x \in S : \A y \in S : SortKey(x) <= SortKey(y)
         IN <<m>> \o Ascending(S \ {m})

Rotate(s, r) ==
    IF s = <<>> THEN s
    ELSE [i \in 1..Len(s) |-> s[((i - 1 + r) % Len(s)) + 1]]

Reverse(s) == [i \in 1..Len(s) |-> s[Len(s) + 1 - i]]

\* list(obj): a list, tuple or set as a sequence.  The iteration order of a set is
\* whatever the hash table gives; ord = [rot, rev] selects it.
py_list(obj, ord) ==
    IF obj.k = "set"
    THEN LET a == Rotate(Ascending(obj.v), ord.rot)
         IN IF ord.rev THEN Reverse(a) ELSE a
    ELSE obj.v

\* len(obj)
py_len(obj) == IF obj.k = "set" THEN Cardinality(obj.v) ELSE Len(obj.v)

\* obj.shape of a frame or a series, np.shape(obj) of an array.
shape(obj) ==
    CASE obj.k = "frame" ->
           <<IF obj.v = <<>> THEN 0 ELSE Len(obj.v[1].val.v), Len(obj.v)>>
      [] OTHER -> <<Len(obj.v)>>

\* repr(key), as str(list) prints each element.
py_repr(key) ==
    CASE key.k = "str" -> "'" \o key.v \o "'"
      [] key.k = "leaf" -> ToString(key.v)
      [] key.k = "none" -> "None"
      [] OTHER -> "<object>"

RECURSIVE JoinRepr(_)
JoinRepr(keys) ==
    IF keys = <<>> THEN ""
    ELSE IF Len(keys) = 1 THEN py_repr(keys[1])
    ELSE py_repr(keys[1]) \o ", " \o JoinRepr(Tail(keys))

\* str(keys) of a list of keys: "['a', 'b']".
py_str_list(keys) == "[" \o JoinRepr(keys) \o "]"

\* d[key] = val on a dict: an existing key keeps its position and gets the value.
dict_setitem(d, key, val) ==
    IF \E i \in DOMAIN d : d[i].key = key
    THEN [i \in DOMAIN d |-> IF d[i].key = key THEN Item(key, val) ELSE d[i]]
    ELSE Append(d, Item(key, val))

\* set(x) forgotten: the list of results is returned as it is.
py_set_kept_list(out) ==
    IF out.st = "exc" THEN out
    ELSE IF out.val.k \in {"list", "tuple"} THEN Ret(PyList(out.val.v), out.log)
    ELSE Raise("TypeError", out.log)

\* tuple(x) / set(x) of what a recursive call returned (a list, or None).
py_tuple(out) ==
    IF out.st = "exc" THEN out
    ELSE IF out.val.k \in {"list", "tuple"} THEN Ret(PyTuple(out.val.v), out.log)
    ELSE Raise("TypeError", out.log)

py_set(out) ==
    IF out.st = "exc" THEN out
    ELSE IF out.val.k \in {"list", "tuple"}
         THEN IF \A i \in DOMAIN out.val.v : hashable(out.val.v[i])
              THEN Ret(PySet(Range(out.val.v)), out.log)
              ELSE Raise("TypeError", out.log)
    ELSE Raise("TypeError", out.log)

\* df.to_dict(orient="list") and series.to_dict()
to_dict(obj) ==
    IF obj.k = "frame"
    THEN PyDict([i \in DOMAIN obj.v |-> Item(obj.v[i].key, PyList(obj.v[i].val.v))])
    ELSE PyDict(obj.v)

\* pd.DataFrame(data): None gives the empty frame; a dict gives one column per key,
\* scalars broadcast to the length of the list columns; all scalars, or list columns
\* of different lengths, raise ValueError.
IsScalar(x) == x.k \in {"leaf", "str", "none", "object"}
IsListLike(x) == x.k \in {"list", "tuple", "ndarray"}
AsCells(x) == IF x.k = "ndarray" THEN [i \in DOMAIN x.v |-> Leaf(x.v[i])] ELSE x.v
pd_DataFrame(out) ==
    IF out.st = "exc" THEN out
    ELSE IF out.val.k = "none" THEN Ret(DataFrame(<<>>), out.log)
    ELSE IF out.val.k # "dict" THEN Raise("ValueError", out.log)
    ELSE LET d == out.val.v
             lists == {i \in DOMAIN d : IsListLike(d[i].val)}
             lens == {Len(d[i].val.v) : i \in lists}
         IN IF d = <<>> THEN Ret(DataFrame(<<>>), out.log)
            ELSE IF \E i \in DOMAIN d : ~IsScalar(d[i].val) /\ ~IsListLike(d[i].val)
                 THEN Raise("ValueError", out.log)
            ELSE IF lists = {} \/ Cardinality(lens) > 1
                 THEN Raise("ValueError", out.log)
            ELSE LET n == CHOOSE m \in lens : TRUE
                 IN Ret(DataFrame([i \in DOMAIN d |->
                        Item(d[i].key,
                             IF i \in lists THEN PyList(AsCells(d[i].val))
                             ELSE PyList([j \in 1..n |-> d[i].val]))]), out.log)

\* pd.Series(data): None gives the empty series, a dict one entry per key.
pd_Series(out) ==
    IF out.st = "exc" THEN out
    ELSE IF out.val.k = "none" THEN Ret(Series(<<>>), out.log)
    ELSE IF out.val.k = "dict" THEN Ret(Series(out.val.v), out.log)
    ELSE Raise("ValueError", out.log)

(***************************************************************************)
(* The user-supplied leaf functions the traversals are exercised with.     *)
(* Each takes any number of positional arguments xs and keyword arguments: *)
(*   inc    one argument x, keyword scale=1: returns (x + 1) times scale   *)
(*   zero   returns 0 whatever it is given                                 *)
(*   ident  one argument x: returns x                                      *)
(*   picky  ints only, keyword scale=1: raises ValueError if 0 is among xs *)
(*          and returns sum(xs) times scale otherwise                      *)
(*   add    ints or equal-shaped arrays, keyword scale=1: the sum of xs    *)
(*          times scale                                                    *)
(***************************************************************************)
kw_keys(kw) == {kw[i].key : i \in DOMAIN kw}
kw_get(kw, name, default) ==
    IF Str(name) \in kw_keys(kw)
    THEN (CHOOSE it \in Range(kw) : it.key = Str(name)).val
    ELSE default

AllLeaf(args) == \A i \in DOMAIN args : args[i].k = "leaf"
AllArray(args) ==
    /\ \A i \in DOMAIN args : args[i].k = "ndarray"
    /\ \A i \in DOMAIN args : Len(args[i].v) = Len(args[1].v)
LeafSum(args) == SeqSum([i \in DOMAIN args |-> args[i].v])
ArraySum(args) == [j \in DOMAIN args[1].v |-> SeqSum([i \in DOMAIN args |-> args[i].v[j]])]

Ok(val) == [st |-> "ok", val |-> val]
Err(name) == [st |-> "exc", val |-> Exc(name)]

\* The value or the exception of calling fn with args and keywords kw.
fun_value(fn, args, kw) ==
    LET scale == kw_get(kw, "scale", Leaf(1))
        scaled == fn \in {"inc", "picky", "add"}
    IN IF scaled /\ (kw_keys(kw) \ {Str("scale")} # {} \/ scale.k # "leaf")
       THEN Err("TypeError")
       ELSE CASE fn = "zero" -> Ok(Leaf(0))
              [] fn = "ident" ->
                   IF Len(args) = 1 THEN Ok(args[1]) ELSE Err("TypeError")
              [] fn = "inc" ->
                   IF Len(args) # 1 THEN Err("TypeError")
                   ELSE IF args[1].k = "leaf"
                        THEN Ok(Leaf((args[1].v + 1) * scale.v))
                   ELSE IF args[1].k = "ndarray"
                        THEN Ok(NdArray([j \in DOMAIN args[1].v |->
                                            (args[1].v[j] + 1) * scale.v]))
                   ELSE Err("TypeError")
              [] fn = "picky" ->
                   IF ~AllLeaf(args) THEN Err("TypeError")
                   ELSE IF \E i \in DOMAIN args : args[i].v = 0 THEN Err("ValueError")
                   ELSE Ok(Leaf(LeafSum(args) * scale.v))
              [] fn = "add" ->
                   IF AllLeaf(args) THEN Ok(Leaf(LeafSum(args) * scale.v))
                   ELSE IF args # <<>> /\ AllArray(args)
                        THEN Ok(NdArray([j \in DOMAIN args[1].v |->
                                            ArraySum(args)[j] * scale.v]))
                   ELSE Err("TypeError")
              [] OTHER -> Err("TypeError")

\* A call of fun at a call site: the call is logged with what it was given and
\* how it ended, and its value or exception is the outcome.
call(fn, args, kw, log) ==
    LET r == fun_value(fn, args, kw)
    IN [st |-> r.st, val |-> r.val,
        log |-> Append(log, [args |-> args, kw |-> kw, st |-> r.st, val |-> r.val])]

(***************************************************************************)
(* @logger.catch (loguru), used bare: an Exception raised by the decorated *)
(* function is logged and swallowed and the call returns None.             *)
(***************************************************************************)
logger_catch(out) == IF out.st = "exc" THEN Ret(NoneVal, out.log) ELSE out

(***************************************************************************)
(* vectorize: the single-input traversal.  to_vectorize is the decorated    *)
(* function, the one the recursive calls reach; log is the call log so far. *)
(***************************************************************************)
RECURSIVE vectorize(_, _, _)
RECURSIVE vectorize_body(_, _, _)
RECURSIVE vectorize_list(_, _, _, _, _)
RECURSIVE vectorize_dict(_, _, _, _, _)

\* vectorize_list with the recursion forgotten: fun is applied to every element.
RECURSIVE vectorize_list_flat(_, _, _, _, _)
vectorize_list_flat(fn, s, i, acc, log) ==
    IF i > Len(s) THEN Ret(PyList(acc), log)
    ELSE LET r == call(fn, <<s[i]>>, <<>>, log)
         IN IF r.st = "exc" THEN r
            ELSE vectorize_list_flat(fn, s, i + 1, Append(acc, r.val), r.log)

\* [fun(el) if isinstance(el, TYPES) else to_vectorize(el) for el in obj], from
\* element i on (the all-leaves comprehension is the same loop); acc holds the elements built so far.  The first exception ends it.
vectorize_list(fn, s, i, acc, log) ==
    IF i > Len(s) THEN Ret(PyList(acc), log)
    ELSE LET r == IF isinstance(s[i], TYPES)
                  THEN call(fn, <<s[i]>>, <<>>, log)
                  ELSE vectorize(fn, s[i], log)
         IN IF r.st = "exc" THEN r
            ELSE vectorize_list(fn, s, i + 1, Append(acc, r.val), r.log)

\* vectorize_dict storing each result under a key made of the function's name and
\* the key, as the multi-input traversal does.
RECURSIVE vectorize_dict_renamed(_, _, _, _, _)
vectorize_dict_renamed(fn, d, i, acc, log) ==
    IF i > Len(d) THEN Ret(PyDict(acc), log)
    ELSE LET r == call(fn, <<d[i].val>>, <<>>, log)
         IN IF r.st = "exc" THEN r
            ELSE vectorize_dict_renamed(fn, d, i + 1,
                     Append(acc, Item(Str(fn \o py_repr(d[i].key)), r.val)), r.log)

\* vectorize_dict treating the values as the list branch treats elements: fun on
\* the values of basic type, the traversal on the others.
RECURSIVE vectorize_dict_recursing(_, _, _, _, _)
vectorize_dict_recursing(fn, d, i, acc, log) ==
    IF i > Len(d) THEN Ret(PyDict(acc), log)
    ELSE LET r == IF isinstance(d[i].val, TYPES)
                  THEN call(fn, <<d[i].val>>, <<>>, log)
                  ELSE vectorize(fn, d[i].val, log)
         IN IF r.st = "exc" THEN r
            ELSE vectorize_dict_recursing(fn, d, i + 1, Append(acc, Item(d[i].key, r.val)), r.log)

\* {key: fun(val) for key, val in obj.items()}: inside the dict branch
\* isinstance(obj, dict) holds, so fun is applied to every value.
vectorize_dict(fn, d, i, acc, log) ==
    IF i > Len(d) THEN Ret(PyDict(acc), log)
    ELSE LET r == call(fn, <<d[i].val>>, <<>>, log)
         IN IF r.st = "exc" THEN r
            ELSE vectorize_dict(fn, d, i + 1, Append(acc, Item(d[i].key, r.val)), r.log)

\* The body in which an array is traversed element by element like a list.
vectorize_body_elementwise(fn, obj, log) ==
    IF isinstance(obj, TYPES) THEN call(fn, <<obj>>, <<>>, log)
    ELSE IF ~isinstance(obj, CONTAINER_TYPES) THEN Raise("TypeError", log)
    ELSE CASE obj.k = "list" -> vectorize_list(fn, obj.v, 1, <<>>, log)
           [] obj.k = "tuple" ->
                py_tuple(vectorize(fn, PyList(py_list(obj, hashOrder[1])), log))
           [] obj.k = "set" ->
                py_set(vectorize(fn, PyList(py_list(obj, hashOrder[1])), log))
           [] obj.k = "dict" -> vectorize_dict(fn, obj.v, 1, <<>>, log)
           [] obj.k = "ndarray" ->
                vectorize_list(fn, [i \in DOMAIN obj.v |-> Leaf(obj.v[i])], 1, <<>>, log)
           [] obj.k = "frame" -> pd_DataFrame(vectorize(fn, to_dict(obj), log))
           [] OTHER -> Ret(NoneVal, log)

vectorize_body(fn, obj, log) ==
    IF isinstance(obj, TYPES) THEN call(fn, <<obj>>, <<>>, log)
    ELSE IF ~isinstance(obj, CONTAINER_TYPES) THEN Raise("TypeError", log)
    ELSE CASE obj.k = "list" -> vectorize_list(fn, obj.v, 1, <<>>, log)
           [] obj.k = "tuple" ->
                py_tuple(vectorize(fn, PyList(py_list(obj, hashOrder[1])), log))
           [] obj.k = "set" ->
                py_set(vectorize(fn, PyList(py_list(obj, hashOrder[1])), log))
           [] obj.k = "dict" -> vectorize_dict(fn, obj.v, 1, <<>>, log)
           [] obj.k = "ndarray" -> call(fn, <<obj>>, <<>>, log)
           [] obj.k = "frame" -> pd_DataFrame(vectorize(fn, to_dict(obj), log))
           [] OTHER -> Ret(NoneVal, log)

vectorize(fn, obj, log) == logger_catch(vectorize_body(fn, obj, log))

(***************************************************************************)
(* vectorize_param: the single-input traversal with keyword parameters.    *)
(* The recursive calls are written to_vectorize(el), to_vectorize(list(obj))*)
(* and to_vectorize(obj.to_dict(...)): they pass no keyword.               *)
(***************************************************************************)
RECURSIVE vectorize_param(_, _, _, _)
RECURSIVE vectorize_param_body(_, _, _, _)
RECURSIVE vectorize_param_list(_, _, _, _, _, _)
RECURSIVE vectorize_param_dict(_, _, _, _, _, _)

vectorize_param_list(fn, s, kw, i, acc, log) ==
    IF i > Len(s) THEN Ret(PyList(acc), log)
    ELSE LET r == IF isinstance(s[i], TYPES)
                  THEN call(fn, <<s[i]>>, kw, log)
                  ELSE vectorize_param(fn, s[i], <<>>, log)
         IN IF r.st = "exc" THEN r
            ELSE vectorize_param_list(fn, s, kw, i + 1, Append(acc, r.val), r.log)

vectorize_param_dict(fn, d, kw, i, acc, log) ==
    IF i > Len(d) THEN Ret(PyDict(acc), log)
    ELSE LET r == call(fn, <<d[i].val>>, kw, log)
         IN IF r.st = "exc" THEN r
            ELSE vectorize_param_dict(fn, d, kw, i + 1,
                                      Append(acc, Item(d[i].key, r.val)), r.log)

vectorize_param_body(fn, obj, kw, log) ==
    IF isinstance(obj, TYPES) THEN call(fn, <<obj>>, kw, log)
    ELSE IF ~isinstance(obj, CONTAINER_TYPES) THEN Raise("TypeError", log)
    ELSE CASE obj.k = "list" -> vectorize_param_list(fn, obj.v, kw, 1, <<>>, log)
           [] obj.k = "tuple" ->
                py_tuple(vectorize_param(fn, PyList(py_list(obj, hashOrder[1])), <<>>, log))
           [] obj.k = "set" ->
                py_set(vectorize_param(fn, PyList(py_list(obj, hashOrder[1])), <<>>, log))
           [] obj.k = "dict" -> vectorize_param_dict(fn, obj.v, kw, 1, <<>>, log)
           [] obj.k = "ndarray" -> call(fn, <<obj>>, kw, log)
           [] obj.k = "frame" ->
                pd_DataFrame(vectorize_param(fn, to_dict(obj), <<>>, log))
           [] OTHER -> Ret(NoneVal, log)

vectorize_param(fn, obj, kw, log) == logger_catch(vectorize_param_body(fn, obj, kw, log))

(***************************************************************************)
(* Helpers of the multi-input traversals.                                  *)
(***************************************************************************)
len_consistency(objs, ctype) ==
    CASE ctype \in {"tuple", "list", "str"} ->
           \A i \in DOMAIN objs : py_len(objs[i]) = py_len(objs[1])
      [] ctype = "dict" ->
           \A i \in DOMAIN objs : Len(objs[i].v) = Len(objs[1].v)
      [] ctype \in {"pd.Series", "pd.DataFrame"} ->
           \A i \in DOMAIN objs : shape(objs[i]) = shape(objs[1])
      [] ctype = "np.ndarray" ->
           \A i \in DOMAIN objs : shape(objs[i]) = shape(objs[1])
      [] OTHER -> FALSE

\* get_section(objects, i, "list"): the i-th element of every input (i from 1 here).
get_section(objs, i) == [j \in DOMAIN objs |-> objs[j].v[i]]

\* get_section(objects, i, "dict"): the i-th key and the i-th value of every input.
get_section_keys(objs, i) == [j \in DOMAIN objs |-> objs[j].v[i].key]
get_section_vals(objs, i) == [j \in DOMAIN objs |-> objs[j].v[i].val]

\* The synthesized key made of the first input's key alone.
synth_key_first(fn, key_el) == Str(fn \o py_str_list(<<key_el[1]>>))

\* f"{fun.__name__}{key_el}"
synth_key(fn, key_el) == Str(fn \o py_str_list(key_el))

\* tuple([list(obj) for obj in objects]); each set iterates in its own order.
as_lists(objs) == [j \in DOMAIN objs |-> PyList(py_list(objs[j], hashOrder[j]))]

as_dicts(objs) == [j \in DOMAIN objs |-> to_dict(objs[j])]

(***************************************************************************)
(* vectorize_multi: the N-input traversal.                                 *)
(***************************************************************************)
RECURSIVE vectorize_multi(_, _, _)
RECURSIVE vectorize_multi_body(_, _, _)
RECURSIVE vectorize_multi_list(_, _, _, _, _)
RECURSIVE vectorize_multi_dict(_, _, _, _, _)

\* vectorize_multi_list building the result back to front: ret.insert(0, ...).
RECURSIVE vectorize_multi_list_rev(_, _, _, _, _)
vectorize_multi_list_rev(fn, objs, i, ret, log) ==
    IF i > Len(objs[1].v) THEN Ret(PyList(ret), log)
    ELSE LET el == get_section(objs, i)
             r == IF all_types_same(el, TYPES)
                  THEN call(fn, el, <<>>, log)
                  ELSE vectorize_multi(fn, el, log)
         IN IF r.st = "exc" THEN r
            ELSE vectorize_multi_list_rev(fn, objs, i + 1, <<r.val>> \o ret, r.log)

\* for i in range(len(objects[0])): ret.append(...), from index i on.
vectorize_multi_list(fn, objs, i, ret, log) ==
    IF i > Len(objs[1].v) THEN Ret(PyList(ret), log)
    ELSE LET el == get_section(objs, i)
             r == IF all_types_same(el, TYPES)
                  THEN call(fn, el, <<>>, log)
                  ELSE vectorize_multi(fn, el, log)
         IN IF r.st = "exc" THEN r
            ELSE vectorize_multi_list(fn, objs, i + 1, Append(ret, r.val), r.log)

\* for i in range(len(objects[0].keys())): ret[f"{fun.__name__}{key_el}"] = ...
\* vectorize_multi_dict flattening: the entries of a mapping returned by the
\* recursive call are merged into the result instead of being stored as one value.
RECURSIVE vectorize_multi_dict_flat(_, _, _, _, _)
RECURSIVE MergeItems(_, _)
MergeItems(ret, items) ==
    IF items = <<>> THEN ret
    ELSE MergeItems(dict_setitem(ret, Head(items).key, Head(items).val), Tail(items))
vectorize_multi_dict_flat(fn, objs, i, ret, log) ==
    IF i > Len(objs[1].v) THEN Ret(PyDict(ret), log)
    ELSE LET key_el == get_section_keys(objs, i)
             val_el == get_section_vals(objs, i)
             r == IF all_types_same(val_el, TYPES)
                  THEN call(fn, val_el, <<>>, log)
                  ELSE vectorize_multi(fn, val_el, log)
         IN IF r.st = "exc" THEN r
            ELSE vectorize_multi_dict_flat(fn, objs, i + 1,
                     IF r.val.k = "dict" THEN MergeItems(ret, r.val.v)
                     ELSE dict_setitem(ret, synth_key(fn, key_el), r.val),
                     r.log)

vectorize_multi_dict(fn, objs, i, ret, log) ==
    IF i > Len(objs[1].v) THEN Ret(PyDict(ret), log)
    ELSE LET key_el == get_section_keys(objs, i)
             val_el == get_section_vals(objs, i)
             r == IF all_types_same(val_el, TYPES)
                  THEN call(fn, val_el, <<>>, log)
                  ELSE vectorize_multi(fn, val_el, log)
         IN IF r.st = "exc" THEN r
            ELSE vectorize_multi_dict(fn, objs, i + 1,
                                      dict_setitem(ret, synth_key(fn, key_el), r.val),
                                      r.log)

vectorize_multi_body(fn, objs, log) ==
    IF all_types_same(objs, TYPES) THEN call(fn, objs, <<>>, log)
    ELSE IF ~argument_consistency(objs, CONTAINER_TYPES) THEN Raise("TypeError", log)
    ELSE CASE objs[1].k = "list" ->
                IF ~len_consistency(objs, "list") THEN Raise("TypeError", log)
                ELSE vectorize_multi_list(fn, objs, 1, <<>>, log)
           [] objs[1].k = "tuple" ->
                IF ~len_consistency(objs, "list") THEN Raise("TypeError", log)
                ELSE py_tuple(vectorize_multi(fn, as_lists(objs), log))
           [] objs[1].k = "set" ->
                IF ~len_consistency(objs, "list") THEN Raise("TypeError", log)
                ELSE py_set(vectorize_multi(fn, as_lists(objs), log))
           [] objs[1].k = "dict" ->
                IF ~(\A j \in DOMAIN objs : Len(objs[j].v) = Len(objs[1].v))
                THEN Raise("TypeError", log)
                ELSE vectorize_multi_dict(fn, objs, 1, <<>>, log)
           [] objs[1].k = "ndarray" ->
                IF ~(\A j \in DOMAIN objs : shape(objs[j]) = shape(objs[1]))
                THEN Raise("TypeError", log)
                ELSE call(fn, objs, <<>>, log)
           [] objs[1].k = "frame" ->
                IF ~(\A j \in DOMAIN objs : shape(objs[j]) = shape(objs[1]))
                THEN Raise("TypeError", log)
                ELSE pd_DataFrame(vectorize_multi(fn, as_dicts(objs), log))
           [] objs[1].k = "series" ->
                IF ~(\A j \in DOMAIN objs : shape(objs[j]) = shape(objs[1]))
                THEN Raise("TypeError", log)
                ELSE pd_Series(vectorize_multi(fn, as_dicts(objs), log))
           [] OTHER -> Ret(NoneVal, log)

vectorize_multi(fn, objs, log) == logger_catch(vectorize_multi_body(fn, objs, log))

(***************************************************************************)
(* vectorize_multi_param: the N-input traversal with keyword parameters,   *)
(* which every recursive call forwards.                                    *)
(***************************************************************************)
RECURSIVE vectorize_multi_param(_, _, _, _)
RECURSIVE vectorize_multi_param_body(_, _, _, _)
RECURSIVE vectorize_multi_param_list(_, _, _, _, _, _)
RECURSIVE vectorize_multi_param_dict(_, _, _, _, _, _)

vectorize_multi_param_list(fn, objs, kw, i, ret, log) ==
    IF i > Len(objs[1].v) THEN Ret(PyList(ret), log)
    ELSE LET el == get_section(objs, i)
             r == IF dtype_consistency_in_container(el, TYPES)
                  THEN call(fn, el, kw, log)
                  ELSE vectorize_multi_param(fn, el, kw, log)
         IN IF r.st = "exc" THEN r
            ELSE vectorize_multi_param_list(fn, objs, kw, i + 1, Append(ret, r.val), r.log)

vectorize_multi_param_dict(fn, objs, kw, i, ret, log) ==
    IF i > Len(objs[1].v) THEN Ret(PyDict(ret), log)
    ELSE LET key_el == get_section_keys(objs, i)
             val_el == get_section_vals(objs, i)
             r == IF dtype_consistency_in_container(val_el, TYPES)
                  THEN call(fn, val_el, kw, log)
                  ELSE vectorize_multi_param(fn, val_el, kw, log)
         IN IF r.st = "exc" THEN r
            ELSE vectorize_multi_param_dict(fn, objs, kw, i + 1,
                                            dict_setitem(ret, synth_key(fn, key_el), r.val),
                                            r.log)

vectorize_multi_param_body(fn, objs, kw, log) ==
    IF ~(\A i \in DOMAIN kw : isinstance(kw[i].val, TYPES)) THEN Raise("TypeError", log)
    ELSE IF \A j \in DOMAIN objs : isinstance(objs[j], TYPES) THEN call(fn, objs, kw, log)
    ELSE IF ~(\E typ \in CONTAINER_TYPES : \A j \in DOMAIN objs : isinstance(objs[j], {typ}))
         THEN Raise("TypeError", log)
    ELSE CASE objs[1].k = "list" ->
                IF ~len_consistency(objs, "list") THEN Raise("TypeError", log)
                ELSE vectorize_multi_param_list(fn, objs, kw, 1, <<>>, log)
           [] objs[1].k = "tuple" ->
                IF ~len_consistency(objs, "tuple") THEN Raise("TypeError", log)
                ELSE py_tuple(vectorize_multi_param(fn, as_lists(objs), kw, log))
           [] objs[1].k = "set" ->
                IF ~len_consistency(objs, "set") THEN Raise("TypeError", log)
                ELSE py_set(vectorize_multi_param(fn, as_lists(objs), kw, log))
           [] objs[1].k = "dict" ->
                IF ~len_consistency(objs, "dict") THEN Raise("TypeError", log)
                ELSE vectorize_multi_param_dict(fn, objs, kw, 1, <<>>, log)
           [] objs[1].k = "ndarray" ->
                IF ~len_consistency(objs, "np.ndarray") THEN Raise("TypeError", log)
                ELSE call(fn, objs, kw, log)
           [] objs[1].k = "frame" ->
                IF ~len_consistency(objs, "pd.DataFrame") THEN Raise("TypeError", log)
                ELSE pd_DataFrame(vectorize_multi_param(fn, as_dicts(objs), kw, log))
           [] objs[1].k = "series" ->
                IF ~len_consistency(objs, "pd.Series") THEN Raise("TypeError", log)
                ELSE pd_Series(vectorize_multi_param(fn, as_dicts(objs), kw, log))
           [] OTHER -> Ret(NoneVal, log)

vectorize_multi_param(fn, objs, kw, log) ==
    logger_catch(vectorize_multi_param_body(fn, objs, kw, log))

(***************************************************************************)
(* The copy of vectorize shipped under build/lib.  Its mapping branch      *)
(* assigns into the mapping it was given and returns that mapping, so an   *)
(* outcome carries obj as well: the input as the caller finds it after the *)
(* call.  Lists and tuples share their elements with the caller, so a      *)
(* mapping nested in them is changed in place too.                         *)
(***************************************************************************)
build_types == {"leaf", "str"}
build_containers == {"list", "set", "tuple", "dict", "ndarray", "frame"}

WithObj(out, obj) == [st |-> out.st, val |-> out.val, log |-> out.log, obj |-> obj]
WithoutObj(out) == [st |-> out.st, val |-> out.val, log |-> out.log]

RECURSIVE build_vectorize(_, _, _)
RECURSIVE build_vectorize_body(_, _, _)
RECURSIVE build_vectorize_list(_, _, _, _, _)
RECURSIVE build_vectorize_dict(_, _, _, _)

\* The list branch from element i on; s holds the elements as they are now.
build_vectorize_list(fn, s, i, acc, log) ==
    IF i > Len(s) THEN WithObj(Ret(PyList(acc), log), s)
    ELSE IF isinstance(s[i], build_types)
    THEN LET r == call(fn, <<s[i]>>, <<>>, log)
         IN IF r.st = "exc" THEN WithObj(r, s)
            ELSE build_vectorize_list(fn, s, i + 1, Append(acc, r.val), r.log)
    ELSE LET r == build_vectorize(fn, s[i], log)
             s2 == [s EXCEPT ![i] = r.obj]
         IN IF r.st = "exc" THEN WithObj(r, s2)
            ELSE build_vectorize_list(fn, s2, i + 1, Append(acc, r.val), r.log)

\* for key, val in obj.items(): obj[key] = fun(val), then return obj: d holds the
\* entries of the mapping as they are now.  An exception leaves the entries
\* assigned so far.
build_vectorize_dict(fn, d, i, log) ==
    IF i > Len(d) THEN WithObj(Ret(PyDict(d), log), d)
    ELSE LET r == call(fn, <<d[i].val>>, <<>>, log)
         IN IF r.st = "exc" THEN WithObj(r, d)
            ELSE build_vectorize_dict(fn, [d EXCEPT ![i].val = r.val], i + 1, r.log)

build_vectorize_body(fn, obj, log) ==
    IF isinstance(obj, build_types) THEN WithObj(call(fn, <<obj>>, <<>>, log), obj)
    ELSE IF ~isinstance(obj, build_containers) THEN WithObj(Raise("TypeError", log), obj)
    ELSE CASE obj.k = "list" ->
                LET r == build_vectorize_list(fn, obj.v, 1, <<>>, log)
                IN WithObj(r, PyList(r.obj))
           [] obj.k = "tuple" ->
                LET r == build_vectorize(fn, PyList(obj.v), log)
                IN WithObj(py_tuple(WithoutObj(r)), PyTuple(r.obj.v))
           [] obj.k = "set" ->
                LET r == build_vectorize(fn, PyList(py_list(obj, hashOrder[1])), log)
                IN WithObj(py_set(WithoutObj(r)), obj)
           [] obj.k = "dict" ->
                LET r == build_vectorize_dict(fn, obj.v, 1, log)
                IN WithObj(r, PyDict(r.obj))
           [] obj.k = "ndarray" -> WithObj(call(fn, <<obj>>, <<>>, log), obj)
           [] obj.k = "frame" ->
                LET r == build_vectorize(fn, to_dict(obj), log)
                IN WithObj(pd_DataFrame(WithoutObj(r)), obj)

build_vectorize(fn, obj, log) ==
    LET out == build_vectorize_body(fn, obj, log)
    IN WithObj(logger_catch(WithoutObj(out)), out.obj)

(***************************************************************************)
(* The inputs of the checked calls.                                        *)
(***************************************************************************)
SeqsUpTo(S, n) == UNION {[1..m -> S] : m \in 0..n}

\* Sequences of distinct elements of S, at most n long.
DistinctSeqs(S, n) == {s \in SeqsUpTo(S, n) : \A i, j \in DOMAIN s : s[i] = s[j] => i = j}

Leaves == {Leaf(n) : n \in 0..MaxLeaf}
Atoms == Leaves \cup {Obj}
Keys == {Str("a"), Str("b")}

ListsOf(S) == {PyList(s) : s \in SeqsUpTo(S, MaxLen)}
TuplesOf(S) == {PyTuple(s) : s \in SeqsUpTo(S, MaxLen)}
SetsOf(S) == {PySet(T) : T \in SUBSET S}
DictsOf(K, S) ==
    {PyDict([i \in DOMAIN ks |-> Item(ks[i], vs[i])]) :
        <<ks, vs>> \in {p \in DistinctSeqs(K, MaxLen) \X SeqsUpTo(S, MaxLen) :
                           Len(p[1]) = Len(p[2])}}
Arrays == {NdArray(s) : s \in SeqsUpTo(0..MaxLeaf, MaxLen)}
\* Frames with columns a, or a and b, of the same number of rows.
Frames ==
    {DataFrame(<<>>)}
    \cup {DataFrame(<<Item(Str("a"), c)>>) : c \in ListsOf(Leaves)}
    \cup {DataFrame(<<Item(Str("a"), c), Item(Str("b"), d)>>) :
             <<c, d>> \in {p \in ListsOf(Leaves) \X ListsOf(Leaves) :
                              Len(p[1].v) = Len(p[2].v)}}
SeriesOf(S) == {Series(d.v) : d \in DictsOf(Keys, S)}
\* The frames all of whose cells are 1.
SmallFrames == {f \in Frames : \A i \in DOMAIN f.v : Range(f.v[i].val.v) \subseteq {Leaf(1)}}

\* One-level values.
Flat ==
    Atoms \cup ListsOf(Atoms) \cup TuplesOf(Atoms) \cup SetsOf(Atoms)
    \cup DictsOf(Keys \cup {Leaf(1)}, Atoms \cup {PyList(<<Leaf(1)>>)})
    \cup Arrays \cup Frames \cup SeriesOf(Leaves)

\* Values nested two and three levels deep, built around the small one-level values.
Inner ==
    Atoms \cup ListsOf(Leaves) \cup TuplesOf(Leaves) \cup SetsOf(Leaves)
    \cup {PyList(<<Obj>>), PyDict(<<Item(Str("a"), Leaf(1))>>), NdArray(<<1>>),
          Series(<<Item(Str("a"), Leaf(1))>>),
          DataFrame(<<Item(Str("a"), PyList(<<Leaf(1)>>))>>)}
Nested ==
    {PyList(<<c>>) : c \in Inner}
    \cup {PyList(<<Leaf(1), c>>) : c \in Inner}
    \cup {PyList(<<c, Leaf(0)>>) : c \in Inner}
    \cup {PyTuple(<<c, Leaf(1)>>) : c \in Inner}
    \cup {PyList(<<PyTuple(<<c>>)>>) : c \in Inner}
    \cup {PyTuple(<<PyList(<<Leaf(1), PyList(<<c>>)>>)>>) : c \in Inner}
    \cup {PySet({Leaf(0), PyTuple(<<c>>)}) : c \in Leaves}
    \cup {PyDict(<<Item(Str("a"), c)>>) : c \in Inner}

MapFuns == {"inc", "zero", "ident", "picky"}
ZipFuns == {"add", "zero", "picky"}
NoParams == <<>>
ParamBags ==
    {NoParams, <<Item(Str("scale"), Leaf(2))>>,
     <<Item(Str("scale"), PyList(<<Leaf(2)>>))>>}

\* The iteration orders of the sets among the inputs.
DefaultOrd == [rot |-> 0, rev |-> FALSE]
Orders == [rot : 0..MaxLeaf, rev : BOOLEAN]
RECURSIVE HasSet(_)
HasSet(x) ==
    CASE x.k = "set" -> TRUE
      [] x.k \in {"list", "tuple"} -> \E i \in DOMAIN x.v : HasSet(x.v[i])
      [] OTHER -> FALSE
OrdersAt(objs, j) ==
    IF j \in DOMAIN objs /\ HasSet(objs[j]) THEN Orders ELSE {DefaultOrd}
OrdersFor(objs) ==
    {<<a, b, c>> : a \in OrdersAt(objs, 1), b \in OrdersAt(objs, 2), c \in OrdersAt(objs, 3)}

\* The inputs of the multi-input calls: pairs of one kind, pairs of mixed kinds,
\* nested pairs and triples.
Reps ==
    {Leaf(0), Leaf(1), Obj, PyList(<<Leaf(0)>>), PyList(<<>>), PyTuple(<<Leaf(1)>>),
     PySet({Leaf(1)}), PyDict(<<Item(Str("a"), Leaf(1))>>), NdArray(<<1>>),
     DataFrame(<<Item(Str("a"), PyList(<<Leaf(1)>>))>>),
     Series(<<Item(Str("a"), Leaf(1))>>)}
Pairs(S) == {<<x, y>> : x \in S, y \in S}
NestedPairs ==
    Pairs(Reps)
    \cup {<<PyList(<<x>>), PyList(<<y>>)>> : x \in Reps, y \in Reps}
    \cup {<<PyList(<<Leaf(1), x>>), PyList(<<Leaf(0), y>>)>> : x \in Reps, y \in Reps}
    \cup {<<PyTuple(<<x, Leaf(1)>>), PyTuple(<<y, Leaf(1)>>)>> : x \in Reps, y \in Reps}
    \cup {<<PyDict(<<Item(Str("a"), x)>>), PyDict(<<Item(Str("b"), y)>>)>> :
             x \in Reps, y \in Reps}
    \cup {<<x>> : x \in Reps}
Triples ==
    {<<x, y, z>> : x \in ListsOf({Leaf(1)}), y \in ListsOf({Leaf(1)}),
                   z \in ListsOf({Leaf(1)})}
    \cup {<<x, y, z>> : x \in DictsOf(Keys, {Leaf(1)}), y \in DictsOf(Keys, {Leaf(1)}),
                        z \in {PyDict(<<>>), PyDict(<<Item(Leaf(1), Leaf(0))>>)}}
ZipInputs ==
    Pairs(ListsOf(Leaves)) \cup Pairs(TuplesOf(Leaves)) \cup Pairs(SetsOf(Leaves))
    \cup Pairs(DictsOf(Keys, Leaves)) \cup Pairs(Arrays)
    \cup Pairs(SmallFrames) \cup Pairs(SeriesOf({Leaf(1)}))
    \cup NestedPairs \cup Triples
ZipParamInputs ==
    Pairs(ListsOf({Leaf(1)})) \cup Pairs(SetsOf({Leaf(1)}))
    \cup Pairs(DictsOf(Keys, {Leaf(1)})) \cup NestedPairs \cup Triples

CallOf(o, f, objs, kw, ord) ==
    [op |-> o, fun |-> f, objects |-> objs, params |-> kw, hashOrder |-> ord]

\* The worked examples of the specification.
SpecExamples ==
    LET ab(x, y) == PyDict(<<Item(Str("a"), Leaf(x)), Item(Str("b"), Leaf(y))>>)
        l12 == PyList(<<Leaf(1), Leaf(2)>>)
        l123 == PyList(<<Leaf(1), Leaf(2), Leaf(3)>>)
        none == [j \in 1..3 |-> DefaultOrd]
    IN {CallOf("map", "inc", <<PyList(<<Leaf(1), PyList(<<Leaf(2), Leaf(3)>>)>>)>>,
               NoParams, none),
        CallOf("map_with_params", "inc", <<l123>>, <<Item(Str("scale"), Leaf(2))>>, none),
        CallOf("zip", "add", <<l123, l12>>, NoParams, none),
        CallOf("zip", "add", <<l12, ab(1, 2)>>, NoParams, none),
        CallOf("zip", "add", <<ab(1, 2), ab(10, 20)>>, NoParams, none),
        CallOf("map", "inc", <<ab(1, 2)>>, NoParams, none)}
       \cup {CallOf("map", "zero", <<PySet({Leaf(1), Leaf(2), Leaf(3)})>>, NoParams, o) :
                o \in OrdersFor(<<PySet({Leaf(1)})>>)}

(***************************************************************************)
(* The state machine: one call of one of the four decorated functions.     *)
(* result is what the caller of the call gets: a value returned, or an     *)
(* exception raised; calls is the log of the leaf function's invocations.  *)
(***************************************************************************)
NoResult == [st |-> "none", val |-> NoneVal]

Start(c) ==
    /\ op = c.op
    /\ fun = c.fun
    /\ objects = c.objects
    /\ params = c.params
    /\ hashOrder = c.hashOrder

Init ==
    /\ \/ \E x \in Flat \cup Nested, f \in MapFuns :
             \E o \in OrdersFor(<<x>>) : Start(CallOf("map", f, <<x>>, NoParams, o))
       \/ \E x \in Inner \cup Nested \cup DictsOf(Keys, Leaves) \cup SmallFrames,
             f \in MapFuns, kw \in ParamBags :
             \E o \in OrdersFor(<<x>>) : Start(CallOf("map_with_params", f, <<x>>, kw, o))
       \/ \E xs \in ZipInputs, f \in ZipFuns :
             \E o \in OrdersFor(xs) : Start(CallOf("zip", f, xs, NoParams, o))
       \/ \E xs \in ZipParamInputs, f \in ZipFuns, kw \in ParamBags :
             \E o \in OrdersFor(xs) : Start(CallOf("zip_with_params", f, xs, kw, o))
       \/ \E x \in Inner \cup Nested \cup DictsOf(Keys, Leaves), f \in MapFuns :
             \E o \in OrdersFor(<<x>>) : Start(CallOf("map_build", f, <<x>>, NoParams, o))
       \/ \E c \in SpecExamples : Start(c)
    /\ pc = "call"
    /\ result = NoResult
    /\ calls = <<>>
    /\ cmIdle /\ metaIdle

Finish(out) ==
    /\ result' = [st |-> out.st, val |-> out.val]
    /\ calls' = out.log
    /\ pc' = "done"
    /\ UNCHANGED <<op, fun, objects, params, hashOrder, cmVars, metaVars>>

\* vectorize(fun)(obj)
Map ==
    /\ pc = "call" /\ op = "map"
    /\ Finish(vectorize(fun, objects[1], <<>>))

\* vectorize_param(fun)(obj, **params)
MapWithParams ==
    /\ pc = "call" /\ op = "map_with_params"
    /\ Finish(vectorize_param(fun, objects[1], params, <<>>))

\* vectorize_multi(fun)(*objects)
Zip ==
    /\ pc = "call" /\ op = "zip"
    /\ Finish(vectorize_multi(fun, objects, <<>>))

\* vectorize_multi_param(fun)(*objects, **params)
ZipWithParams ==
    /\ pc = "call" /\ op = "zip_with_params"
    /\ Finish(vectorize_multi_param(fun, objects, params, <<>>))

\* vectorize(fun)(obj) of the copy under build/lib: the caller's container is the
\* one the call worked on.
MapBuild ==
    /\ pc = "call" /\ op = "map_build"
    /\ LET out == build_vectorize(fun, objects[1], <<>>)
       IN /\ result' = [st |-> out.st, val |-> out.val]
          /\ calls' = out.log
          /\ objects' = <<out.obj>>
    /\ pc' = "done"
    /\ UNCHANGED <<op, fun, params, hashOrder, cmVars, metaVars>>

Next == Map \/ MapWithParams \/ Zip \/ ZipWithParams \/ MapBuild

Spec == Init /\ [][Next]_vars

(***************************************************************************)
(* What the claims speak of.                                               *)
(***************************************************************************)
Done(o) == pc = "done" /\ op = o
Returned(val) == [st |-> "ok", val |-> val]
Raised(name) == [st |-> "exc", val |-> Exc(name)]

\* The value of the leaf function on args, and whether it has one.
FunOk(args, kw) == fun_value(fun, args, kw).st = "ok"
FunVal(args, kw) == fun_value(fun, args, kw).val

\* Lists and tuples nested to any depth over leaves.
RECURSIVE NestedSeq(_)
NestedSeq(x) ==
    CASE x.k = "leaf" -> TRUE
      [] x.k \in {"list", "tuple"} -> \A i \in DOMAIN x.v : NestedSeq(x.v[i])
      [] OTHER -> FALSE

RECURSIVE LeavesOf(_)
LeavesOf(x) ==
    CASE x.k = "leaf" -> {x}
      [] x.k \in {"list", "tuple"} -> UNION {LeavesOf(x.v[i]) : i \in DOMAIN x.v}
      [] OTHER -> {}

RECURSIVE Depth(_)
Depth(x) ==
    IF x.k \in {"list", "tuple"} /\ x.v # <<>>
    THEN 1 + (CHOOSE d \in {Depth(x.v[i]) : i \in DOMAIN x.v} :
                 \A i \in DOMAIN x.v : Depth(x.v[i]) <= d)
    ELSE IF x.k \in {"list", "tuple"} THEN 1 ELSE 0

\* x with every leaf replaced by its image under the leaf function.
RECURSIVE LeafImage(_)
LeafImage(x) ==
    IF x.k = "leaf" THEN FunVal(<<x>>, NoParams)
    ELSE [k |-> x.k, v |-> [i \in DOMAIN x.v |-> LeafImage(x.v[i])]]

\* C1: for an input built from lists and tuples nested to any depth over leaves (on
\* which the leaf function has a value), map returns the structure of the same
\* nesting, lengths and order in which every leaf v is replaced by f(v).
C1_MapPreservesNesting ==
    (/\ Done("map")
     /\ NestedSeq(objects[1])
     /\ \A l \in LeavesOf(objects[1]) : FunOk(<<l>>, NoParams))
    => result = Returned(LeafImage(objects[1]))

\* C1 witness: map(inc, [1, [2, 3]]) has returned [2, [3, 4]].
C1_Witness ==
    /\ Done("map") /\ fun = "inc"
    /\ objects[1] = PyList(<<Leaf(1), PyList(<<Leaf(2), Leaf(3)>>)>>)
    /\ result = Returned(PyList(<<Leaf(2), PyList(<<Leaf(3), Leaf(4)>>)>>))

\* C2: in map_with_params every invocation of the leaf function receives the
\* caller's parameter bag unchanged, wherever the leaf lies.
C2_ParamsForwardedEverywhere ==
    Done("map_with_params") => \A i \in DOMAIN calls : calls[i].kw = params

\* C3: an error raised by the leaf function during any of the four operations
\* reaches the caller unmodified: the first call that raised ends the operation
\* with its error.
C3_LeafErrorPropagates ==
    (pc = "done" /\ \E i \in DOMAIN calls : calls[i].st = "exc")
    => LET first == CHOOSE i \in DOMAIN calls :
                       /\ calls[i].st = "exc"
                       /\ \A j \in 1..(i - 1) : calls[j].st = "ok"
       IN result = [st |-> "exc", val |-> calls[first].val]

\* C4: map on a value that is neither a leaf nor a container fails with a
\* not-a-container error the caller sees, and the leaf function is not invoked.
C4_NotAContainerFails ==
    (/\ Done("map")
     /\ ~isinstance(objects[1], TYPES)
     /\ ~isinstance(objects[1], CONTAINER_TYPES))
    => result = Raised("TypeError") /\ calls = <<>>

AllOfKind(kind) == \A j \in DOMAIN objects : objects[j].k = kind
SameLength == \A j \in DOMAIN objects : Len(objects[j].v) = Len(objects[1].v)

\* C5: zip on N lists (or N tuples) that do not all have the same length fails
\* with a shape-mismatch error the caller sees; no result container is returned.
C5_ShapeMismatchFails ==
    (/\ Done("zip")
     /\ AllOfKind("list") \/ AllOfKind("tuple")
     /\ ~SameLength)
    => result = Raised("TypeError")

\* C6: zip on N values (leaves and containers) that are not all leaves and not all
\* of one container kind fails with a type-mismatch error the caller sees.
C6_KindMismatchFails ==
    (/\ Done("zip")
     /\ \A j \in DOMAIN objects : isinstance(objects[j], TYPES \cup CONTAINER_TYPES)
     /\ ~(\A j \in DOMAIN objects : isinstance(objects[j], TYPES))
     /\ ~(\E kind \in CONTAINER_TYPES : AllOfKind(kind)))
    => result = Raised("TypeError")

\* The i-th section of the inputs, whether it is all leaves, and the recursive zip
\* of it under the operation of the state.
Section(i) == [j \in DOMAIN objects |-> objects[j].v[i]]
LeafSection(sec) == \A j \in DOMAIN sec : isinstance(sec[j], TYPES)
ZipOf(sec) ==
    IF op = "zip" THEN vectorize_multi(fun, sec, <<>>).val
    ELSE vectorize_multi_param(fun, sec, params, <<>>).val
ZipDone == pc = "done" /\ op \in {"zip", "zip_with_params"}
ParamsAreLeaves == \A i \in DOMAIN params : isinstance(params[i].val, TYPES)

\* C7: for N lists of equal length L (the leaf function having a value on every
\* all-leaf section), zip returns a list of length L whose i-th element is fn of the
\* N i-th elements when they are all leaves and their recursive zip otherwise.
C7_ZipSequence ==
    (/\ ZipDone /\ ParamsAreLeaves
     /\ AllOfKind("list") /\ SameLength
     /\ \A i \in DOMAIN objects[1].v :
           LeafSection(Section(i)) => FunOk(Section(i), params))
    => /\ result.st = "ok"
       /\ result.val.k = "list"
       /\ Len(result.val.v) = Len(objects[1].v)
       /\ \A i \in DOMAIN objects[1].v :
             result.val.v[i] = IF LeafSection(Section(i))
                               THEN FunVal(Section(i), params)
                               ELSE ZipOf(Section(i))

\* C7 witness: a zip of two lists of length 2 has returned a list with a leaf
\* section (fn applied) and a nested section (the recursive zip, a list).
C7_Witness ==
    /\ Done("zip") /\ AllOfKind("list") /\ Len(objects) = 2
    /\ Len(objects[1].v) = 2 /\ Len(objects[2].v) = 2
    /\ LeafSection(Section(1)) /\ ~LeafSection(Section(2))
    /\ result.st = "ok" /\ result.val.k = "list"
    /\ result.val.v[1] = FunVal(Section(1), NoParams)
    /\ result.val.v[2].k = "list" /\ result.val.v[2].v # <<>>

\* The keys and the values found at position i of the N input mappings.
KeysAt(i) == [j \in DOMAIN objects |-> objects[j].v[i].key]
ValsAt(i) == [j \in DOMAIN objects |-> objects[j].v[i].val]
LeafValued(d) == \A i \in DOMAIN d.v : isinstance(d.v[i].val, TYPES)
MappingsWithLeaves ==
    /\ AllOfKind("dict") /\ SameLength
    /\ \A j \in DOMAIN objects : LeafValued(objects[j])
    /\ \A i \in DOMAIN objects[1].v : FunOk(ValsAt(i), NoParams)
AB(x, y) == PyDict(<<Item(Str("a"), Leaf(x)), Item(Str("b"), Leaf(y))>>)
AddExample == Done("zip") /\ fun = "add" /\ objects = <<AB(1, 2), AB(10, 20)>>

\* C8 (as amended): for N mappings with the same number of keys and leaf values,
\* zip returns a mapping with one entry per key position i, whose key is the
\* function's name followed by the printed list of the N keys found at position i
\* (one key per input) and whose value is fn of the N values at position i; for
\* zip(add, {a:1,b:2}, {a:10,b:20}) the keys are "add['a', 'a']" and "add['b', 'b']"
\* and the values 11 and 22.
C8_ZipMappingKeys ==
    /\ (Done("zip") /\ MappingsWithLeaves)
       => /\ result.st = "ok"
          /\ result.val.k = "dict"
          /\ Len(result.val.v) = Len(objects[1].v)
          /\ \A i \in DOMAIN objects[1].v :
                /\ result.val.v[i].key = Str(fun \o py_str_list(KeysAt(i)))
                /\ result.val.v[i].val = FunVal(ValsAt(i), NoParams)
    /\ AddExample
       => result = Returned(PyDict(<<Item(Str("add['a', 'a']"), Leaf(11)),
                                     Item(Str("add['b', 'b']"), Leaf(22))>>))

\* C8 witness: zip(add, {a:1,b:2}, {a:10,b:20}) has returned its two entries.
C8_Witness ==
    /\ AddExample
    /\ result.st = "ok" /\ result.val.k = "dict" /\ Len(result.val.v) = 2
    /\ result.val.v[1].val = Leaf(11) /\ result.val.v[2].val = Leaf(22)

\* C8 as stated: for zip(add, {a:1,b:2}, {a:10,b:20}) the two entries have the keys
\* "add" followed by ['a'] and by ['b'] and the values 11 and 22.
C8_KeysOfOneKey ==
    AddExample
    => result = Returned(PyDict(<<Item(Str("add['a']"), Leaf(11)),
                                  Item(Str("add['b']"), Leaf(22))>>))

\* C9: for a mapping m with leaf values (on which the leaf function has a value),
\* map(f, m) is a mapping with exactly the keys of m, every key k mapped to f(m[k]).
C9_MapKeepsKeys ==
    (/\ Done("map") /\ objects[1].k = "dict" /\ LeafValued(objects[1])
     /\ \A i \in DOMAIN objects[1].v : FunOk(<<objects[1].v[i].val>>, NoParams))
    => /\ result.st = "ok"
       /\ result.val.k = "dict"
       /\ {it.key : it \in Range(result.val.v)} = {it.key : it \in Range(objects[1].v)}
       /\ Len(result.val.v) = Len(objects[1].v)
       /\ \A it \in Range(objects[1].v) :
             Item(it.key, FunVal(<<it.val>>, NoParams)) \in Range(result.val.v)

\* C9 witness: map(inc, {a:1, b:2}) has returned {a:2, b:3}.
C9_Witness ==
    /\ Done("map") /\ fun = "inc" /\ objects[1] = AB(1, 2)
    /\ result = Returned(AB(2, 3))

\* C10: for a set s of leaves (on which the leaf function has a value), map(f, s)
\* is the set of images of s: equal results collapse, the output has no more
\* elements than the input, and a constant function gives a set of size 1 on a
\* non-empty s.
C10_MapSetImages ==
    (/\ Done("map") /\ objects[1].k = "set"
     /\ \A x \in objects[1].v : x.k = "leaf" /\ FunOk(<<x>>, NoParams))
    => /\ result = Returned(PySet({FunVal(<<x>>, NoParams) : x \in objects[1].v}))
       /\ Cardinality(result.val.v) <= Cardinality(objects[1].v)
       /\ (fun = "zero" /\ objects[1].v # {}) => Cardinality(result.val.v) = 1

\* C10 witness: map(zero, {1, 2, 3}) has returned a set of size 1.
C10_Witness ==
    /\ Done("map") /\ fun = "zero"
    /\ objects[1] = PySet({Leaf(1), Leaf(2), Leaf(3)})
    /\ result.st = "ok" /\ result.val.k = "set" /\ Cardinality(result.val.v) = 1

\* A call on arrays: map on an array, or zip on N arrays of one shape.
ArrayCall ==
    \/ Done("map") /\ objects[1].k = "ndarray"
    \/ /\ Done("zip") /\ AllOfKind("ndarray")
       /\ \A j \in DOMAIN objects : shape(objects[j]) = shape(objects[1])

\* C11: for map on an array, and for zip on N arrays of identical shape, the leaf
\* function is invoked exactly once, with the whole array(s) as its argument(s) and
\* never with their elements; what it returns is the result.
C11_ArrayPassedWhole ==
    ArrayCall
    => /\ Len(calls) = 1
       /\ calls[1].args = objects
       /\ calls[1].st = "ok" => result = Returned(calls[1].val)

\* C11 witness: zip(add, array([0, 1]), array([1, 1])) has called add once, with the
\* two arrays, and returned array([1, 2]).
C11_Witness ==
    /\ Done("zip") /\ fun = "add"
    /\ objects = <<NdArray(<<0, 1>>), NdArray(<<1, 1>>)>>
    /\ Len(calls) = 1 /\ calls[1].args = objects
    /\ result = Returned(NdArray(<<1, 2>>))

\* C12: zip_with_params whose parameter bag holds a value that is not a leaf fails
\* with an invalid-parameter error the caller sees, before any recursion: the leaf
\* function is invoked zero times.
C12_BadParamFails ==
    (Done("zip_with_params") /\ ~ParamsAreLeaves)
    => result = Raised("TypeError") /\ calls = <<>>

\* C13: map never changes the container it is given: after the call of either
\* shipped copy of vectorize (and of the other three traversals) the caller's
\* inputs are what they were before it.
C13_InputNotMutated == [][objects' = objects]_vars

\* The kinds whose result is rebuilt from a list or a mapping, and the inputs of
\* such a kind that pass validation: one input of map, or N inputs of zip of one
\* kind and one size (one shape, for frames).
RebuiltKinds == {"list", "tuple", "set", "dict", "frame"}
PassesValidation(kind) ==
    \/ Done("map") /\ objects[1].k = kind
    \/ /\ Done("zip") /\ AllOfKind(kind)
       /\ \A j \in DOMAIN objects :
             /\ py_len(objects[j]) = py_len(objects[1])
             /\ kind = "frame" => shape(objects[j]) = shape(objects[1])
NoCallRaised == \A i \in DOMAIN calls : calls[i].st = "ok"

\* C14: for an input of map, or N inputs of zip, of kind list, tuple, set, mapping
\* or frame that pass validation (and a leaf function that returned from every
\* invocation), the result is a container of that same kind.
C14_KindPreserved ==
    \A kind \in RebuiltKinds :
        (PassesValidation(kind) /\ NoCallRaised)
        => result.st = "ok" /\ result.val.k = kind

\* How the undecorated body of the single-input traversal of the state ends.
MapBody ==
    IF op = "map" THEN vectorize_body(fun, objects[1], <<>>)
    ELSE vectorize_param_body(fun, objects[1], params, <<>>)

\* C15: classification in map is total: a value that passes the CONTAINER_TYPES
\* check is handled by a traversal branch, so the call never ends with no value
\* (None), no invocation of the leaf function and no failure raised in its body.
C15_ClassificationTotal ==
    (/\ pc = "done" /\ op \in {"map", "map_with_params"}
     /\ isinstance(objects[1], CONTAINER_TYPES))
    => \/ calls # <<>>
       \/ MapBody.st = "exc"
       \/ result # Returned(NoneVal)

\* A failure that arises one level down: map on a list with an element that is
\* neither a leaf nor a container, or zip on lists of one length with a position
\* whose values are neither all leaves nor all of one container kind.
NestedFailure ==
    \/ /\ Done("map") /\ objects[1].k = "list"
       /\ \E i \in DOMAIN objects[1].v :
             ~isinstance(objects[1].v[i], TYPES \cup CONTAINER_TYPES)
    \/ /\ Done("zip") /\ AllOfKind("list") /\ SameLength
       /\ \E i \in DOMAIN objects[1].v :
             /\ ~LeafSection(Section(i))
             /\ ~argument_consistency(Section(i), CONTAINER_TYPES)

\* C16: a failure detected at a nested recursion level of map or zip makes the
\* top-level call fail; no container is returned with a placeholder (None) at the
\* failing position beside the computed results of the others.
C16_NestedFailurePropagates ==
    NestedFailure => result.st = "exc"

\* The values at position i are mappings of one number of keys, with leaf values on
\* which the leaf function has a value; the N values at position m of them.
InnerValsAt(i, m) == [j \in DOMAIN objects |-> ValsAt(i)[j].v[m].val]
NestedMappingsAt(i) ==
    /\ \A j \in DOMAIN objects :
          /\ ValsAt(i)[j].k = "dict"
          /\ Len(ValsAt(i)[j].v) = Len(ValsAt(i)[1].v)
          /\ LeafValued(ValsAt(i)[j])
    /\ \A m \in DOMAIN ValsAt(i)[1].v : FunOk(InnerValsAt(i, m), params)

KeySet(d) == {d.v[i].key : i \in DOMAIN d.v}

\* C18: zip on N mappings whose key sets differ fails with a shape-mismatch error
\* the caller sees, also when they have the same number of keys: values are never
\* combined across different keys.  (Stated for mappings with the same number of
\* keys and leaf values, the case the key counts do not decide, and for calls in
\* which no invocation of the leaf function raised: the claim allows no invocation.)
C18_KeySetMismatchFails ==
    (/\ Done("zip") /\ AllOfKind("dict") /\ SameLength
     /\ \E j \in DOMAIN objects : KeySet(objects[j]) # KeySet(objects[1])
     /\ \A j \in DOMAIN objects : LeafValued(objects[j])
     /\ NoCallRaised)
    => result = Raised("TypeError") /\ calls = <<>>

\* N sets of leaves of one cardinality, given to zip or to zip_with_params, whose
\* position-wise sections (in the iteration orders of the call) the leaf function
\* has a value on.
SetSection(i) == get_section(as_lists(objects), i)
SetsOfOneSize ==
    /\ ZipDone /\ ParamsAreLeaves /\ AllOfKind("set")
    /\ \A j \in DOMAIN objects :
          /\ Cardinality(objects[j].v) = Cardinality(objects[1].v)
          /\ \A x \in objects[j].v : x.k = "leaf"
    /\ \A i \in 1..Cardinality(objects[1].v) : FunOk(SetSection(i), params)

\* C19: for N sets of equal cardinality, zip and zip_with_params both return the
\* set (duplicates collapsed) of fn applied to the position-wise sections of the N
\* sets; neither fails with a shape-mismatch error.
C19_ZipSetsBothVariants ==
    SetsOfOneSize
    => result = Returned(PySet({FunVal(SetSection(i), params) :
                                   i \in 1..Cardinality(objects[1].v)}))

\* A maximum depth a caller might configure; the traversals take no such setting.
AnyMaxDepth == 2

\* C20: map or zip on a structure nested deeper than the configured maximum depth
\* fails with a depth-exceeded error the caller sees instead of recursing on.
C20_DepthGuard ==
    (/\ pc = "done" /\ op \in {"map", "zip"}
     /\ \E j \in DOMAIN objects : Depth(objects[j]) > AnyMaxDepth)
    => result.st = "exc"

(***************************************************************************)
(* src/build/lib/pytools/concurrecy.py.                                    *)
(*                                                                         *)
(* The dict args has the keys call_args.keys, in order, and values that    *)
(* are all tuples or all dicts; the dict kwargs is None or has the keys     *)
(* call_kwargs.keys.  The user function f is opaque: a call of it is       *)
(* recorded as what it was given ([key, star, named, kw, mutex]: the        *)
(* arguments of which key, and whether it got *args[key], **args[key],     *)
(* **kwargs[key] and mutex=...), it raises on the keys in raises and        *)
(* returns a value that stands for the call otherwise, written as the call  *)
(* itself (CallText).  Python's None is "None".                            *)
(***************************************************************************)
MaxKeys == 3
MaxCpu == 4

KeyNames == <<"a", "b", "c", "d", "e">>
ArgDicts == [keys : {SubSeq(KeyNames, 1, n) : n \in 0..MaxKeys}, kind : {"tuple", "dict"}]
ArgKeys(a) == {a.keys[i] : i \in DOMAIN a.keys}
NoKwargs == [given |-> FALSE, keys |-> {}]
\* kwargs: None, the keys of args, one key more, or the first key missing.
KwargsFor(a) ==
    {NoKwargs, [given |-> TRUE, keys |-> ArgKeys(a)],
     [given |-> TRUE, keys |-> ArgKeys(a) \cup {"z"}],
     [given |-> TRUE, keys |-> ArgKeys(a) \ {KeyNames[1]}]}
\* The user function raises on no key or on one.
RaisesFor(a) == {{}} \cup {{key} : key \in ArgKeys(a)}

RECURSIVE JoinComma(_)
JoinComma(parts) ==
    IF parts = <<>> THEN ""
    ELSE IF Len(parts) = 1 THEN parts[1]
    ELSE parts[1] \o ", " \o JoinComma(Tail(parts))

Invocation(key, star, named, kw, mtx) ==
    [key |-> key, star |-> star, named |-> named, kw |-> kw, mutex |-> mtx]
CallText(inv) ==
    "f(" \o JoinComma((IF inv.star THEN <<"*args['" \o inv.key \o "']">> ELSE <<>>)
                      \o (IF inv.named THEN <<"**args['" \o inv.key \o "']">> ELSE <<>>)
                      \o (IF inv.kw THEN <<"**kwargs['" \o inv.key \o "']">> ELSE <<>>)
                      \o (IF inv.mutex THEN <<"mutex=mutex">> ELSE <<>>)) \o ")"

\* function(...): what the call of the user function ends with.
function(inv) ==
    IF inv.key \in raises THEN [st |-> "exc", val |-> "RuntimeError"]
    ELSE [st |-> "ok", val |-> CallText(inv)]

Pending == [st |-> "pending", val |-> ""]
NoReturn == [st |-> "none", val |-> NoDict, exc |-> ""]
ReturnDict(d) == [st |-> "ok", val |-> d, exc |-> ""]
RaiseError(name) == [st |-> "exc", val |-> NoDict, exc |-> name]

\* A new lock is created held by nobody; acquire blocks while it is held.
Free == "free"
\* A variant of can_acquire: an acquire that never blocks.
can_acquire_always(l) == l \in DOMAIN tlock
can_acquire(l) == tlock[l] = Free
acquired(l, key) == [tlock EXCEPT ![l] = key]
released(l) == [tlock EXCEPT ![l] = Free]
\* TLock() entered at once by the worker of key: a lock of its own.
new_lock_entered(key) == [l \in DOMAIN tlock \cup {key} |-> IF l = key THEN key ELSE tlock[l]]

(***************************************************************************)
(* The decorator concurrency_manager(engine, lock, own_lock) and locker.   *)
(* inner_wrap runs in the calling thread; with engine 'thread' every       *)
(* submitted call of locker's inner_wrapper runs in a thread of the pool    *)
(* (ThreadPoolExecutor() has at least 5 threads, more than the keys here).  *)
(* A pool task: "run" (submitted), "body" (inside the with block or the     *)
(* else arm, in the wrapped function), "leave" (the function has ended),    *)
(* "finished" (inner_wrapper has ended and the future holds its outcome).   *)
(***************************************************************************)
\* What the wrapped function is given for key: lines 133-142, then locker's
\* inner_wrapper deletes mutex unless own_lock (lines 72-73).
submitted(key) ==
    IF call_kwargs.given THEN Invocation(key, TRUE, FALSE, TRUE, own_lock)
    ELSE IF call_args.kind = "tuple" THEN Invocation(key, TRUE, FALSE, FALSE, own_lock)
    ELSE Invocation(key, FALSE, TRUE, FALSE, own_lock)

\* coros of async_inner_wrap (lines 147-156): what each coroutine calls, or the
\* error that building the list raises.
coros ==
    IF call_kwargs.given
    THEN IF ArgKeys(call_args) # call_kwargs.keys
         THEN IF ArgKeys(call_args) \subseteq call_kwargs.keys
              THEN [st |-> "ok",
                    val |-> [i \in DOMAIN call_args.keys |->
                                Invocation(call_args.keys[i], TRUE, FALSE, TRUE, FALSE)]]
              ELSE [st |-> "exc", val |-> "KeyError"]
         ELSE [st |-> "ok", val |-> <<>>]
    ELSE IF call_args.keys = <<>> THEN [st |-> "exc", val |-> "IndexError"]
    ELSE IF call_args.kind = "tuple"
         THEN [st |-> "ok",
               val |-> [i \in DOMAIN call_args.keys |->
                           Invocation(call_args.keys[i], TRUE, FALSE, FALSE, FALSE)]]
    ELSE [st |-> "ok",
          val |-> [i \in DOMAIN call_args.keys |->
                      Invocation(call_args.keys[i], FALSE, TRUE, FALSE, FALSE)]]

\* {key: result for key, result in zip(args.keys(), results)} over the first n keys;
\* a result that is an exception is raised instead (the first in order).
RECURSIVE collect(_, _)
collect(n, i) ==
    IF i > n THEN ReturnDict([key \in {call_args.keys[j] : j \in 1..n} |-> results[key].val])
    ELSE IF results[call_args.keys[i]].st = "exc"
         THEN RaiseError(results[call_args.keys[i]].val)
    ELSE collect(n, i + 1)

DecoratorEnd(out) == mpc' = "done" /\ returned' = out

\* inner_wrap up to the first submit, or up to gather.
inner_wrap ==
    /\ unit = "concurrency_manager" /\ mpc = "call"
    /\ IF engine \notin {"thread", "async"}
       THEN /\ DecoratorEnd(RaiseError("ValueError"))
            /\ UNCHANGED <<mi, wpc, results, tlock>>
       ELSE IF engine = "thread"
       THEN /\ tlock' = IF own_lock THEN [l \in {"mutex"} |-> Free] ELSE tlock
            /\ IF call_kwargs.given /\ ArgKeys(call_args) # call_kwargs.keys
               THEN DecoratorEnd(RaiseError("ValueError")) /\ UNCHANGED <<mi, wpc, results>>
               ELSE IF ~call_kwargs.given /\ call_args.keys = <<>>
               THEN DecoratorEnd(RaiseError("IndexError")) /\ UNCHANGED <<mi, wpc, results>>
               ELSE /\ mpc' = "submit" /\ mi' = 1
                    /\ wpc' = [key \in ArgKeys(call_args) |-> "pending"]
                    /\ results' = [key \in ArgKeys(call_args) |-> Pending]
                    /\ UNCHANGED returned
       ELSE /\ IF coros.st = "exc"
               THEN DecoratorEnd(RaiseError(coros.val)) /\ UNCHANGED <<mi, results>>
               ELSE /\ mpc' = "gather" /\ mi' = 1
                    /\ results' = [key \in {coros.val[i].key : i \in DOMAIN coros.val} |-> Pending]
                    /\ UNCHANGED returned
            /\ UNCHANGED <<wpc, tlock>>
    /\ UNCHANGED <<unit, engine, lock, own_lock, call_args, call_kwargs, cpu_count, raises,
                   batch, shared_data, invocations, vecVars, metaVars>>

\* executor.submit(locker(lock, own_lock)(function), ...) for the next key.
executor_submit ==
    /\ unit = "concurrency_manager" /\ mpc = "submit" /\ mi <= Len(call_args.keys)
    /\ wpc' = [wpc EXCEPT ![call_args.keys[mi]] = "run"]
    /\ mi' = mi + 1
    /\ UNCHANGED <<unit, engine, lock, own_lock, call_args, call_kwargs, cpu_count, raises,
                   mpc, batch, tlock, shared_data, results, invocations, returned,
                   vecVars, metaVars>>

\* The end of the with block waits for every task; then the dict of line 143.
executor_exit ==
    /\ unit = "concurrency_manager" /\ mpc = "submit" /\ mi > Len(call_args.keys)
    /\ \A key \in DOMAIN wpc : wpc[key] = "finished"
    /\ DecoratorEnd(collect(Len(call_args.keys), 1))
    /\ UNCHANGED <<unit, engine, lock, own_lock, call_args, call_kwargs, cpu_count, raises,
                   batch, mi, wpc, tlock, shared_data, results, invocations,
                   vecVars, metaVars>>

\* inner_wrapper up to the call of function: `with TLock():` makes a lock and
\* enters it when lock and not own_lock.
locker_enter(key) ==
    /\ unit = "concurrency_manager" /\ wpc[key] = "run"
    /\ tlock' = IF lock /\ ~own_lock THEN new_lock_entered(key) ELSE tlock
    /\ wpc' = [wpc EXCEPT ![key] = "body"]
    /\ UNCHANGED <<unit, engine, lock, own_lock, call_args, call_kwargs, cpu_count, raises,
                   mpc, batch, mi, shared_data, results, invocations, returned,
                   vecVars, metaVars>>

\* function(*args, **kwargs) inside inner_wrapper runs and ends.
locker_function(key) ==
    /\ unit = "concurrency_manager" /\ wpc[key] = "body"
    /\ invocations' = Append(invocations, submitted(key))
    /\ results' = [results EXCEPT ![key] = function(submitted(key))]
    /\ wpc' = [wpc EXCEPT ![key] = "leave"]
    /\ UNCHANGED <<unit, engine, lock, own_lock, call_args, call_kwargs, cpu_count, raises,
                   mpc, batch, mi, tlock, shared_data, returned, vecVars, metaVars>>

\* The with block is left (the lock released) and inner_wrapper ends.
locker_exit(key) ==
    /\ unit = "concurrency_manager" /\ wpc[key] = "leave"
    /\ tlock' = IF key \in DOMAIN tlock THEN released(key) ELSE tlock
    /\ wpc' = [wpc EXCEPT ![key] = "finished"]
    /\ UNCHANGED <<unit, engine, lock, own_lock, call_args, call_kwargs, cpu_count, raises,
                   mpc, batch, mi, shared_data, results, invocations, returned,
                   vecVars, metaVars>>

\* await gather(*coros): the event loop runs the next coroutine to its end.
gather_next ==
    /\ unit = "concurrency_manager" /\ mpc = "gather" /\ mi <= Len(coros.val)
    /\ invocations' = Append(invocations, coros.val[mi])
    /\ results' = [results EXCEPT ![coros.val[mi].key] = function(coros.val[mi])]
    /\ mi' = mi + 1
    /\ UNCHANGED <<unit, engine, lock, own_lock, call_args, call_kwargs, cpu_count, raises,
                   mpc, batch, wpc, tlock, shared_data, returned, vecVars, metaVars>>

\* gather has every result: the dict of line 159 is returned by run().
gather_done ==
    /\ unit = "concurrency_manager" /\ mpc = "gather" /\ mi > Len(coros.val)
    /\ DecoratorEnd(collect(Len(coros.val), 1))
    /\ UNCHANGED <<unit, engine, lock, own_lock, call_args, call_kwargs, cpu_count, raises,
                   batch, mi, wpc, tlock, shared_data, results, invocations,
                   vecVars, metaVars>>

InitDecorator ==
    /\ unit = "concurrency_manager"
    /\ engine \in {"thread", "async", "process"}
    /\ lock \in BOOLEAN /\ own_lock \in BOOLEAN
    /\ call_args \in ArgDicts
    /\ call_kwargs \in KwargsFor(call_args)
    /\ raises \in RaisesFor(call_args)
    /\ cpu_count = 1
    /\ mpc = "call" /\ batch = 0 /\ mi = 0 /\ wpc = NoDict /\ tlock = NoDict
    /\ shared_data = NoDict /\ results = NoDict /\ invocations = <<>>
    /\ returned = NoReturn
    /\ vecIdle /\ metaIdle

NextDecorator ==
    \/ inner_wrap \/ executor_submit \/ executor_exit
    \/ \E key \in DOMAIN wpc : locker_enter(key) \/ locker_function(key) \/ locker_exit(key)
    \/ gather_next \/ gather_done

SpecDecorator == InitDecorator /\ [][NextDecorator]_vars

(***************************************************************************)
(* class ConcurrencyManager.  lock and own_lock hold the constructor's     *)
(* locker and own_locker.  concurrency_manager runs in the calling thread   *)
(* and guard in one thread or process per key.  A worker: "unstarted",      *)
(* "guard" (started, before the acquire), "call" (about to call the         *)
(* function), "store" (the function has returned, the result is not yet     *)
(* stored), "release" (stored), "finished", or "died" (the function raised  *)
(* and the exception ended the thread or process).                          *)
(***************************************************************************)
\* __init__: self.mutex is a lock when locker or own_locker.
MutexName == "self.mutex"
has_mutex == (lock \/ own_lock) /\ engine \in {"thread", "process"}
guard_locks == has_mutex /\ ~own_lock

\* [set_to_partition[i: i + length_of_subset] for i in range(0, len, length_of_subset)]
\* for length_of_subset > 0; range() raises ValueError for a step of 0.
RECURSIVE div_to_subsets(_, _)
div_to_subsets(set_to_partition, length_of_subset) ==
    IF set_to_partition = <<>> THEN <<>>
    ELSE IF Len(set_to_partition) <= length_of_subset THEN <<set_to_partition>>
    ELSE <<SubSeq(set_to_partition, 1, length_of_subset)>>
         \o div_to_subsets(SubSeq(set_to_partition, length_of_subset + 1, Len(set_to_partition)),
                           length_of_subset)

\* core_available = int(cpu_count()/2)
core_available == cpu_count \div 2
\* The batches of workers: all threads at once, or the subsets of the partition.
partition ==
    IF engine = "thread" THEN <<call_args.keys>>
    ELSE div_to_subsets(call_args.keys, core_available)

\* The call of self.function that guard makes for key (lines 279-294).
guarded(key) ==
    IF call_args.kind = "tuple" /\ call_kwargs.given
    THEN Invocation(key, TRUE, FALSE, TRUE, own_lock)
    ELSE IF call_args.kind = "tuple" THEN Invocation(key, TRUE, FALSE, FALSE, own_lock)
    ELSE Invocation(key, FALSE, TRUE, FALSE, own_lock)

\* The call of self.function that single_async awaits for key (lines 310-317).
single_async(key) ==
    IF call_args.kind = "tuple" /\ call_kwargs.given
    THEN Invocation(key, TRUE, FALSE, TRUE, FALSE)
    ELSE IF call_args.kind = "tuple" THEN Invocation(key, TRUE, FALSE, FALSE, FALSE)
    ELSE Invocation(key, FALSE, TRUE, FALSE, FALSE)

alive(key) == wpc[key] \in {"guard", "call", "store", "release"}
\* A variant of joinable: a join that returns for any started worker.
joinable_started(key) == wpc[key] # "unstarted"
\* join() returns once the thread or process has ended.
joinable(key) == wpc[key] \in {"finished", "died"}

ManagerEnd(out) == mpc' = "done" /\ returned' = out

\* concurrency_manager up to the first start(): the test of lines 227-228, the
\* partition, shared_data with None for every key.
manager_call ==
    /\ unit = "ConcurrencyManager" /\ mpc = "call"
    /\ IF call_kwargs.given /\ ArgKeys(call_args) # call_kwargs.keys
       THEN /\ ManagerEnd(RaiseError("TypeError"))
            /\ UNCHANGED <<batch, mi, wpc, shared_data, results>>
       ELSE IF engine = "process" /\ core_available = 0
       THEN /\ ManagerEnd(RaiseError("ValueError"))
            /\ UNCHANGED <<batch, mi, wpc, shared_data, results>>
       ELSE /\ shared_data' = [key \in ArgKeys(call_args) |-> "None"]
            /\ results' = [key \in ArgKeys(call_args) |-> Pending]
            /\ wpc' = [key \in ArgKeys(call_args) |-> "unstarted"]
            /\ mi' = 1
            /\ IF engine = "async"
               THEN mpc' = "async_root" /\ batch' = 0 /\ UNCHANGED returned
               ELSE IF partition = <<>>
               THEN ManagerEnd(ReturnDict(shared_data')) /\ batch' = 0
               ELSE mpc' = "start" /\ batch' = 1 /\ UNCHANGED returned
    /\ UNCHANGED <<unit, engine, lock, own_lock, call_args, call_kwargs, cpu_count, raises,
                   tlock, invocations, vecVars, metaVars>>

\* thread.start() or process.start() for the next worker of the batch.
start ==
    /\ unit = "ConcurrencyManager" /\ mpc = "start" /\ mi <= Len(partition[batch])
    /\ wpc' = [wpc EXCEPT ![partition[batch][mi]] = "guard"]
    /\ mi' = mi + 1
    /\ UNCHANGED <<unit, engine, lock, own_lock, call_args, call_kwargs, cpu_count, raises,
                   mpc, batch, tlock, shared_data, results, invocations, returned,
                   vecVars, metaVars>>

\* The loop of start() calls ends and the loop of join() calls begins.
start_done ==
    /\ unit = "ConcurrencyManager" /\ mpc = "start" /\ mi > Len(partition[batch])
    /\ mpc' = "join" /\ mi' = 1
    /\ UNCHANGED <<unit, engine, lock, own_lock, call_args, call_kwargs, cpu_count, raises,
                   batch, wpc, tlock, shared_data, results, invocations, returned,
                   vecVars, metaVars>>

\* thread.join() or process.join() for the next worker of the batch returns.
join ==
    /\ unit = "ConcurrencyManager" /\ mpc = "join" /\ mi <= Len(partition[batch])
    /\ joinable(partition[batch][mi])
    /\ mi' = mi + 1
    /\ UNCHANGED <<unit, engine, lock, own_lock, call_args, call_kwargs, cpu_count, raises,
                   mpc, batch, wpc, tlock, shared_data, results, invocations, returned,
                   vecVars, metaVars>>

\* Every worker of the batch is joined: the next subset, or return self.shared_data.
join_done ==
    /\ unit = "ConcurrencyManager" /\ mpc = "join" /\ mi > Len(partition[batch])
    /\ IF batch < Len(partition)
       THEN mpc' = "start" /\ batch' = batch + 1 /\ mi' = 1 /\ UNCHANGED returned
       ELSE ManagerEnd(ReturnDict(shared_data)) /\ UNCHANGED <<batch, mi>>
    /\ UNCHANGED <<unit, engine, lock, own_lock, call_args, call_kwargs, cpu_count, raises,
                   wpc, tlock, shared_data, results, invocations, vecVars, metaVars>>

\* guard, lines 276-277: self.mutex.acquire() blocks while the mutex is held.
guard_acquire(key) ==
    /\ unit = "ConcurrencyManager" /\ wpc[key] = "guard"
    /\ IF guard_locks
       THEN can_acquire(MutexName) /\ tlock' = acquired(MutexName, key)
       ELSE UNCHANGED tlock
    /\ wpc' = [wpc EXCEPT ![key] = "call"]
    /\ UNCHANGED <<unit, engine, lock, own_lock, call_args, call_kwargs, cpu_count, raises,
                   mpc, batch, mi, shared_data, results, invocations, returned,
                   vecVars, metaVars>>

\* guard, the right-hand side of lines 279-294: self.function runs; an exception
\* leaves guard at once, and nothing after it in guard is run.
guard_call(key) ==
    /\ unit = "ConcurrencyManager" /\ wpc[key] = "call"
    /\ invocations' = Append(invocations, guarded(key))
    /\ results' = [results EXCEPT ![key] = function(guarded(key))]
    /\ wpc' = [wpc EXCEPT ![key] = IF function(guarded(key)).st = "exc" THEN "died" ELSE "store"]
    /\ UNCHANGED <<unit, engine, lock, own_lock, call_args, call_kwargs, cpu_count, raises,
                   mpc, batch, mi, tlock, shared_data, returned, vecVars, metaVars>>

\* guard, the assignment of lines 279-294: self.shared_data[id] = the result.
guard_store(key) ==
    /\ unit = "ConcurrencyManager" /\ wpc[key] = "store"
    /\ shared_data' = [shared_data EXCEPT ![key] = results[key].val]
    /\ wpc' = [wpc EXCEPT ![key] = "release"]
    /\ UNCHANGED <<unit, engine, lock, own_lock, call_args, call_kwargs, cpu_count, raises,
                   mpc, batch, mi, tlock, results, invocations, returned,
                   vecVars, metaVars>>

\* guard, lines 296-297: self.mutex.release(), and guard ends.
guard_release(key) ==
    /\ unit = "ConcurrencyManager" /\ wpc[key] = "release"
    /\ tlock' = IF guard_locks THEN released(MutexName) ELSE tlock
    /\ wpc' = [wpc EXCEPT ![key] = "finished"]
    /\ UNCHANGED <<unit, engine, lock, own_lock, call_args, call_kwargs, cpu_count, raises,
                   mpc, batch, mi, shared_data, results, invocations, returned,
                   vecVars, metaVars>>

\* async_root: gather runs single_async for the next key to its end.
async_root_next ==
    /\ unit = "ConcurrencyManager" /\ mpc = "async_root" /\ mi <= Len(call_args.keys)
    /\ invocations' = Append(invocations, single_async(call_args.keys[mi]))
    /\ results' = [results EXCEPT ![call_args.keys[mi]] = function(single_async(call_args.keys[mi]))]
    /\ mi' = mi + 1
    /\ UNCHANGED <<unit, engine, lock, own_lock, call_args, call_kwargs, cpu_count, raises,
                   mpc, batch, wpc, tlock, shared_data, returned, vecVars, metaVars>>

\* async_root, lines 306-308: the results replace shared_data, or gather raises.
async_root_done ==
    /\ unit = "ConcurrencyManager" /\ mpc = "async_root" /\ mi > Len(call_args.keys)
    /\ ManagerEnd(collect(Len(call_args.keys), 1))
    /\ shared_data' = IF returned'.st = "ok" THEN returned'.val ELSE shared_data
    /\ UNCHANGED <<unit, engine, lock, own_lock, call_args, call_kwargs, cpu_count, raises,
                   batch, mi, wpc, tlock, results, invocations, vecVars, metaVars>>

InitManager ==
    /\ unit = "ConcurrencyManager"
    /\ engine \in {"thread", "process", "async"}
    /\ lock \in BOOLEAN /\ own_lock \in BOOLEAN
    /\ call_args \in ArgDicts
    /\ call_kwargs \in KwargsFor(call_args)
    /\ raises \in RaisesFor(call_args)
    \* cpu_count() is read by the process engine only.
    /\ cpu_count \in (IF engine = "process" THEN 1..MaxCpu ELSE {1})
    /\ mpc = "call" /\ batch = 0 /\ mi = 0 /\ wpc = NoDict
    /\ tlock = IF has_mutex THEN [l \in {MutexName} |-> Free] ELSE NoDict
    /\ shared_data = NoDict /\ results = NoDict /\ invocations = <<>>
    /\ returned = NoReturn
    /\ vecIdle /\ metaIdle

NextManager ==
    \/ manager_call \/ start \/ start_done \/ join \/ join_done
    \/ \E key \in DOMAIN wpc :
          guard_acquire(key) \/ guard_call(key) \/ guard_store(key) \/ guard_release(key)
    \/ async_root_next \/ async_root_done

SpecManager == InitManager /\ [][NextManager]_vars

(***************************************************************************)
(* class CallBlockerMetaclass (src/build/lib/pytools/metaclass.py).         *)
(* counter is an attribute of the metaclass itself, read and written as     *)
(* CallBlockerMetaclass.counter: one counter for all classes.               *)
(***************************************************************************)
MaxCalls == 4
Classes == {"A", "B", "C"}

\* A variant of creates that blocks from the third call on.
creates_twice(c) == c \in {0, 1}
\* __call__ reaches super().__call__: counter is not in [1, 2], and is 0.
creates(c) == c \notin {1, 2} /\ c = 0
\* The value __call__ leaves in counter.
counter_after(c) == IF c \in {1, 2} THEN 2 ELSE IF creates(c) THEN 1 ELSE c

\* cls(*args, **kwargs): __call__ of the metaclass.  ok: type.__call__ (the
\* class's __new__ and __init__) returns the instance rather than raising.
Call(cls, ok) ==
    /\ unit = "CallBlockerMetaclass" /\ Len(history) < MaxCalls
    /\ counter' = counter_after(counter)
    /\ IF creates(counter)
       THEN IF ok
            THEN /\ instances' = [instances EXCEPT ![cls] = @ + 1]
                 /\ history' = Append(history, [cls |-> cls, out |-> "instance"])
            ELSE /\ UNCHANGED instances
                 /\ history' = Append(history, [cls |-> cls, out |-> "raised"])
       ELSE /\ UNCHANGED instances
            /\ history' = Append(history, [cls |-> cls, out |-> "None"])
    /\ UNCHANGED <<vecVars, cmVars>>

InitMeta ==
    /\ counter = 0
    /\ instances = [cls \in Classes |-> 0]
    /\ history = <<>>
    /\ vecIdle
    /\ unit = "CallBlockerMetaclass" /\ engine = "" /\ lock = FALSE /\ own_lock = FALSE
    /\ call_args = [keys |-> <<>>, kind |-> "tuple"]
    /\ call_kwargs = NoKwargs
    /\ cpu_count = 1 /\ raises = {}
    /\ mpc = "" /\ batch = 0 /\ mi = 0 /\ wpc = NoDict /\ tlock = NoDict
    /\ shared_data = NoDict /\ results = NoDict /\ invocations = <<>>
    /\ returned = NoReturn

NextMeta == \E cls \in Classes, ok \in BOOLEAN : Call(cls, ok)

SpecMeta == InitMeta /\ [][NextMeta]_vars

\* C23: over any sequence of instantiation calls on a class whose metaclass is
\* CallBlockerMetaclass, at most one call creates and returns an instance.
C23_AtMostOneInstance ==
    \A cls \in Classes :
        /\ Cardinality({i \in DOMAIN history :
                           history[i].cls = cls /\ history[i].out = "instance"}) <= 1
        /\ instances[cls] <= 1

\* A call created an instance of a class and a later call on the same class
\* returned None.
C23_Witness ==
    \E i, j \in DOMAIN history :
        /\ i < j /\ history[i].cls = history[j].cls
        /\ history[i].out = "instance" /\ history[j].out = "None"

\* C24: an instantiation call made while no instance of its class exists
\* creates and returns an instance, whatever calls were made before on other
\* classes (no constructor raising).
C24_FirstCallPerClassCreates ==
    (\A i \in DOMAIN history : history[i].out # "raised")
    => \A i \in DOMAIN history :
           (\A j \in 1..(i - 1) :
               ~(history[j].cls = history[i].cls /\ history[j].out = "instance"))
           => history[i].out = "instance"

(***************************************************************************)
(* Properties of the decorator concurrency_manager and of locker           *)
(* (specification SpecDecorator).                                           *)
(***************************************************************************)
InvocationsOf(key) == {i \in DOMAIN invocations : invocations[i].key = key}

\* C21: a function wrapped with locker(lock=True, own_lock=False) and invoked
\* from several threads runs its invocations mutually exclusively: at most one
\* thread is inside the wrapped function at a time.
C21_LockerMutualExclusion ==
    (unit = "concurrency_manager" /\ engine = "thread" /\ lock /\ ~own_lock)
    => Cardinality({key \in DOMAIN wpc : wpc[key] = "body"}) <= 1

\* C30: with either engine of the decorator and args and kwargs both given with
\* the same keys, the function is invoked exactly once per key with
\* (*args[key], **kwargs[key]) and the returned dict has one entry per key,
\* holding the result of that invocation.
C30_OncePerKey ==
    (/\ unit = "concurrency_manager" /\ mpc = "done"
     /\ engine \in {"thread", "async"} /\ ~own_lock
     /\ call_kwargs.given /\ ArgKeys(call_args) = call_kwargs.keys
     /\ raises = {})
    => /\ returned.st = "ok"
       /\ DOMAIN returned.val = ArgKeys(call_args)
       /\ \A key \in ArgKeys(call_args) :
             /\ Cardinality(InvocationsOf(key)) = 1
             /\ \A i \in InvocationsOf(key) :
                   /\ invocations[i] = Invocation(key, TRUE, FALSE, TRUE, FALSE)
                   /\ returned.val[key] = CallText(invocations[i])

C27_GuardMutualExclusion ==
    (unit = "ConcurrencyManager" /\ engine = "thread" /\ lock /\ ~own_lock)
    => /\ Cardinality({key \in DOMAIN wpc : wpc[key] \in {"call", "store"}}) <= 1
       /\ \A key \in DOMAIN wpc :
             wpc[key] \in {"call", "store", "release"} => tlock[MutexName] = key

\* One worker is about to store its result while another waits for the mutex.
C27_Witness ==
    /\ unit = "ConcurrencyManager" /\ engine = "thread" /\ lock /\ ~own_lock
    /\ \E key, other \in DOMAIN wpc :
          key # other /\ wpc[key] = "store" /\ wpc[other] = "guard"

\* C28: with engine 'thread', locker=True and own_locker=False, a worker whose
\* invocation raises does not leave the mutex held, so concurrency_manager is
\* never left waiting for ever: until it has returned, the calling thread or
\* some worker can take a step.
C28_NeverStuck ==
    (unit = "ConcurrencyManager" /\ engine = "thread" /\ lock /\ ~own_lock)
    => (mpc = "done" \/ ENABLED NextManager)

\* C29: with engine 'process' the keys are run in consecutive batches of at most
\* int(cpu_count()/2) keys: at most that many processes are alive, no process
\* is started before every process of the batches before it is joined, and
\* when concurrency_manager ends every key has been run exactly once.
C29_ProcessBatches ==
    (/\ unit = "ConcurrencyManager" /\ engine = "process" /\ call_args.keys # <<>>
     /\ ~(call_kwargs.given /\ ArgKeys(call_args) # call_kwargs.keys))
    => /\ Cardinality({key \in DOMAIN wpc : alive(key)}) <= core_available
       /\ core_available > 0
          => \A b \in DOMAIN partition :
                /\ Len(partition[b]) <= core_available
                /\ \A i \in DOMAIN partition[b] :
                      (partition[b][i] \in DOMAIN wpc /\ wpc[partition[b][i]] # "unstarted")
                      => \A a \in 1..(b - 1) : \A j \in DOMAIN partition[a] :
                            joinable(partition[a][j]) /\ (batch > a \/ mpc = "done")
       /\ mpc = "done"
          => /\ returned.st = "ok"
             /\ \A key \in ArgKeys(call_args) : Cardinality(InvocationsOf(key)) = 1

C26_FrameByColumn ==
    (Done("map") /\ objects[1].k = "frame" /\ NoCallRaised)
    => /\ Len(calls) = Len(objects[1].v)
       /\ \A i \in DOMAIN calls : calls[i].args = <<to_dict(objects[1]).v[i].val>>
       /\ result.st = "ok" /\ result.val.k = "frame"
       /\ [i \in DOMAIN result.val.v |-> result.val.v[i].key]
          = [i \in DOMAIN objects[1].v |-> objects[1].v[i].key]

=============================================================================
